---- MODULE Spec2Model ----
(***************************************************************************)
(* Model of alternative_imputers/mice_i.py: the MICE imputers BaseMICE,     *)
(* VanilaMICE, FastMICE, SlowFastMICE and FastSlowMICE.                     *)
(*                                                                         *)
(* A DataFrame is a function from positions <<row, col>> (0-based, as iloc *)
(* and np.argwhere see them) to cell values, together with its index (the  *)
(* row labels, which drop(index=...) and fillna(Series) align on) and the  *)
(* dtype of each column (numeric or not).  Cell values are fixed-point     *)
(* numbers in units of 1/Scale, so that a column mean over at most NRows   *)
(* present values is exact; NaN is the missing-value sentinel.             *)
(*                                                                         *)
(* The estimator (lightgbm) and the loss (sklearn) are external: a fit /   *)
(* predict returns any non-missing value or raises, the loss returns or    *)
(* raises.                                                                 *)
(***************************************************************************)
EXTENDS Integers, Sequences, FiniteSets, TLC

\* ---------------------------------------------------------------- bounds
NRows == 3
NCols == 2
MaxIter == 2
MaxMissing == 2
NVals == 2

Rows == 0 .. (NRows - 1)
Cols == 0 .. (NCols - 1)
Positions == Rows \X Cols

RECURSIVE Factorial(_)
Factorial(n) == IF n <= 1 THEN 1 ELSE n * Factorial(n - 1)

\* one unit of the fixed-point representation is 1/Scale
Scale == Factorial(NRows)

NaN == -1
Vals == {Scale * v : v \in 1 .. NVals}

Strategies == {"VanilaMICE", "FastMICE", "SlowFastMICE", "FastSlowMICE"}
Entries == {"fill_missing_values", "benchmark"}

\* ------------------------------------------------------------- helpers
Range(s) == {s[i] : i \in 1 .. Len(s)}

RECURSIVE SumOver(_, _, _)
SumOver(t, c, rs) ==
    IF rs = {} THEN 0
    ELSE LET r == CHOOSE x \in rs : TRUE
         IN t[<<r, c>>] + SumOver(t, c, rs \ {r})

\* the ascending sequence of a finite set of integers
RECURSIVE SortedSeq(_)
SortedSeq(S) ==
    IF S = {} THEN <<>>
    ELSE LET m == CHOOSE x \in S : \A y \in S : x <= y
         IN <<m>> \o SortedSeq(S \ {m})

\* df.isna(): the positions holding the sentinel
IsNa(t) == {p \in Positions : t[p] = NaN}

\* np.argwhere(df.isna().values).tolist(): the missing positions in
\* row-major order
ArgwhereNa(t) ==
    LET codes == SortedSeq({p[1] * NCols + p[2] : p \in IsNa(t)})
    IN [i \in 1 .. Len(codes) |-> <<codes[i] \div NCols, codes[i] % NCols>>]

\* columns_missing = df.isna().sum(); columns_missing[columns_missing > 0]
ColumnsMissing(t) == {c \in Cols : \E r \in Rows : t[<<r, c>>] = NaN}

\* ------------------------------------------- impute_initial_mean_or_mode
PresentRows(t, c) == {r \in Rows : t[<<r, c>>] # NaN}

\* Series.mean(): skips missing values; NaN for a column with none present
Mean(t, c) ==
    IF PresentRows(t, c) = {} THEN NaN
    ELSE SumOver(t, c, PresentRows(t, c)) \div Cardinality(PresentRows(t, c))

Count(t, c, v) == Cardinality({r \in Rows : t[<<r, c>>] = v})

\* Series.mode(): the most frequent present values, ascending, as a Series
\* labelled 0, 1, ...
Mode(t, c) ==
    LET present == {t[<<r, c>>] : r \in PresentRows(t, c)}
        top == {v \in present : \A w \in present : Count(t, c, w) <= Count(t, c, v)}
    IN SortedSeq(top)

\* Series.fillna(value) with a Series value: a missing cell takes the entry
\* of value that carries the cell's own row label, and stays missing when
\* value has no such label
FillnaSeries(t, idx, c, r, value) ==
    IF t[<<r, c>>] # NaN THEN t[<<r, c>>]
    ELSE IF idx[r] + 1 \in 1 .. Len(value) THEN value[idx[r] + 1]
    ELSE NaN

\* Series.fillna(value) with a scalar value
FillnaScalar(t, c, r, value) ==
    IF t[<<r, c>>] # NaN THEN t[<<r, c>>] ELSE value

impute_initial_mean_or_mode(t, idx, num) ==
    [p \in Positions |->
        IF num[p[2]]
        THEN FillnaScalar(t, p[2], p[1], Mean(t, p[2]))
        ELSE FillnaSeries(t, idx, p[2], p[1], Mode(t, p[2]))]

\* ------------------------------------------------------------- inputs
\* the input tables of impute_initial_mean_or_mode: every cell missing or
\* a value
Tables == [Positions -> Vals \cup {NaN}]

\* the input tables the passes are run on: the present cells hold CanonVal,
\* the missing cells are at most MaxMissing of the positions MissingAt
CanonVal(p) == Scale * (1 + ((p[1] + p[2]) % NVals))
MissingAt == {<<i % NRows, i % NCols>> : i \in 0 .. MaxMissing}
CanonTables ==
    {[p \in Positions |-> IF p \in m THEN NaN ELSE CanonVal(p)] :
        m \in {x \in SUBSET MissingAt : Cardinality(x) <= MaxMissing}}

\* row labels: the default RangeIndex, and the same labels in reverse order
RangeIndex == [r \in Rows |-> r]
ReversedIndex == [r \in Rows |-> NRows - 1 - r]
Indexes == {RangeIndex, ReversedIndex}

Dtypes == [Cols -> BOOLEAN]

\* numeric and categorical columns in turn, numeric first
MixedDtypes == [c \in Cols |-> c % 2 = 0]

\* --------------------------------------------------------------- state
VARIABLES
    strategy,     \* the class of self
    max_iter,     \* self.max_iter
    entry,        \* the method called: fill_missing_values or benchmark
    df_in,        \* the argument df / df_missing
    index,        \* its row labels, by position
    numeric,      \* is_numeric_dtype of each column
    nan_ids,      \* the list of missing positions
    df,           \* df_imputed, mutated in place by transform
    iter,         \* the loop variable of the pass loop
    pc,           \* "start", "loop", "pass", "loss", "done", "failed"
    err,          \* the exception that ended the call, "" if none
    gran,         \* the transform running: "cell" (Vanila) or "column" (Fast)
    random_ids,   \* the permutation drawn by the running transform
    k,            \* how many elements of random_ids the for loop consumed
    iter_results, \* benchmark's list of per-iteration records (their "iter")
    \* history variables
    df_init,      \* the result of impute_initial_mean_or_mode
    calls,        \* the transform calls made: [iter_id, gran]
    units,        \* the positions fitted and predicted in the running pass
    pass_df,      \* the table the running transform received
    prev_ret,     \* the table the pass loop held before that call
    writes,       \* the writes of the running pass: <<row, col, value>>
    fit_df,       \* the table the last fit took X and y from
    train_rows,   \* the row positions the last fit trained on
    pred_rows     \* the row positions the last predict was written to

vars == <<strategy, max_iter, entry, df_in, index, numeric, nan_ids, df, iter,
          pc, err, gran, random_ids, k, iter_results, df_init, calls, units,
          pass_df, prev_ret, writes, fit_df, train_rows, pred_rows>>

inputs == <<strategy, max_iter, entry, df_in, index, numeric>>
history == <<units, pass_df, prev_ret, writes, fit_df, train_rows, pred_rows>>

NoTable == [p \in Positions |-> NaN]

InitRest ==
    /\ index \in Indexes
    /\ nan_ids = <<>>
    /\ df = NoTable
    /\ iter = 0
    /\ pc = "start"
    /\ err = ""
    /\ gran = "none"
    /\ random_ids = <<>>
    /\ k = 0
    /\ iter_results = <<>>
    /\ df_init = NoTable
    /\ calls = <<>>
    /\ units = <<>>
    /\ pass_df = NoTable
    /\ prev_ret = NoTable
    /\ writes = <<>>
    /\ fit_df = NoTable
    /\ train_rows = {}
    /\ pred_rows = {}

Init ==
    /\ strategy \in Strategies
    /\ max_iter \in 0 .. MaxIter
    /\ entry \in Entries
    /\ df_in \in CanonTables
    /\ numeric = MixedDtypes
    /\ InitRest

\* -------------------------------------------------------------- actions
\* fill_missing_values lines 28-30, benchmark lines 53-59: capture the
\* missing positions, build the initial imputation
Call ==
    /\ pc = "start"
    /\ nan_ids' = ArgwhereNa(df_in)
    /\ df' = impute_initial_mean_or_mode(df_in, index, numeric)
    /\ df_init' = df'
    /\ prev_ret' = df'
    /\ iter' = 0
    /\ pc' = "loop"
    /\ UNCHANGED <<inputs, err, gran, random_ids, k, iter_results, calls,
                   units, pass_df, writes, fit_df, train_rows, pred_rows>>

\* for iter in range(self.max_iter)
MutLoopHasNext(it, n) == it <= n
LoopHasNext(it, n) == it < n

\* the pass loop is exhausted: return df_imputed / iter_results
Return ==
    /\ pc = "loop"
    /\ ~LoopHasNext(iter, max_iter)
    /\ pc' = "done"
    /\ UNCHANGED <<inputs, nan_ids, df, iter, err, gran, random_ids, k,
                   iter_results, df_init, calls, history>>

\* fill_missing_values line 32: self.transform(df_imputed, nan_ids, iter)
\* passes three arguments to a transform that takes four (columns_missing,
\* nan_ids, iter_id have no defaults): the call raises TypeError before the
\* body of transform runs
FillTransform ==
    /\ pc = "loop"
    /\ entry = "fill_missing_values"
    /\ LoopHasNext(iter, max_iter)
    /\ pc' = "failed"
    /\ err' = "TypeError"
    /\ UNCHANGED <<inputs, nan_ids, df, iter, gran, random_ids, k,
                   iter_results, df_init, calls, history>>

\* SlowFastMICE.transform: iter_id > 0 selects fast_mice, else vanila_mice
SlowFastUsesVanila(iter_id) == ~(iter_id > 0)

\* FastSlowMICE.transform: iter_id + 1 == self.max_iter selects vanila_mice
MutFastSlowUsesVanila(iter_id, n) == iter_id = n
FastSlowUsesVanila(iter_id, n) == iter_id + 1 = n

\* the transform a call on self reaches
Delegate(s, iter_id, n) ==
    CASE s = "VanilaMICE" -> "cell"
      [] s = "FastMICE" -> "column"
      [] s = "SlowFastMICE" ->
            IF SlowFastUsesVanila(iter_id) THEN "cell" ELSE "column"
      [] s = "FastSlowMICE" ->
            IF FastSlowUsesVanila(iter_id, n) THEN "cell" ELSE "column"

\* np.random.permutation(n).tolist(): the orders of 0 .. n-1
MutPermutation(n) == [1 .. n -> 0 .. (n - 1)]
Permutation(n) ==
    {s \in [1 .. n -> 0 .. (n - 1)] : \A i, j \in 1 .. n : s[i] = s[j] => i = j}

\* benchmark line 62: self.transform(df_imputed, columns_missing, nan_ids,
\* iter), up to the permutation drawn on the first line of the transform
BenchmarkTransform ==
    /\ pc = "loop"
    /\ entry = "benchmark"
    /\ LoopHasNext(iter, max_iter)
    /\ gran' = Delegate(strategy, iter, max_iter)
    /\ random_ids' \in Permutation(Len(nan_ids))
    /\ k' = 0
    /\ calls' = Append(calls, [iter_id |-> iter, gran |-> gran'])
    /\ units' = <<>>
    /\ writes' = <<>>
    /\ pass_df' = df
    /\ pc' = "pass"
    /\ UNCHANGED <<inputs, nan_ids, df, iter, err, iter_results, df_init,
                   prev_ret, fit_df, train_rows, pred_rows>>

\* X = df.drop(columns=...); y = df[...]: taken from df inside the loop
MutFitView(cur, start) == start
FitView(cur, start) == cur

\* X.drop(index=row_id), y.drop(index=row_id): the rows whose label is not
\* row_id remain
DropIndex(idx, labels) == {r \in Rows : idx[r] \notin labels}

\* df.iloc[row_id, col_id]: the cell at that position
MutIloc(idx, row_id, col_id) == <<idx[row_id], col_id>>
Iloc(idx, row_id, col_id) == <<row_id, col_id>>

\* VanilaMICE.transform lines 127-139, one element of random_ids: fit on
\* the table without row_id, predict row_id, write the prediction
VanilaUnit ==
    /\ pc = "pass"
    /\ gran = "cell"
    /\ k < Len(random_ids)
    /\ LET id == random_ids[k + 1]
           row_id == nan_ids[id + 1][1]
           col_id == nan_ids[id + 1][2]
           target == Iloc(index, row_id, col_id)
       IN /\ fit_df' = FitView(df, pass_df)
          /\ train_rows' = DropIndex(index, {row_id})
          /\ pred_rows' = {row_id}
          /\ \E v \in Vals :
                /\ df' = [df EXCEPT ![target] = v]
                /\ writes' = Append(writes, <<target[1], target[2], v>>)
          /\ units' = Append(units, <<row_id, col_id>>)
    /\ k' = k + 1
    /\ UNCHANGED <<inputs, nan_ids, iter, pc, err, gran, random_ids,
                   iter_results, df_init, calls, pass_df, prev_ret>>

\* the estimator raises in fit or predict: the call ends with its exception
VanilaFitError ==
    /\ pc = "pass"
    /\ gran = "cell"
    /\ k < Len(random_ids)
    /\ pc' = "failed"
    /\ err' = "FitError"
    /\ UNCHANGED <<inputs, nan_ids, df, iter, gran, random_ids, k,
                   iter_results, df_init, calls, history>>

\* FastMICE.transform line 152, first element of random_ids: id is not a
\* local of transform (the comprehension of line 157 binds its own id), so
\* nan_ids[id] indexes the list with the builtin function id and raises
\* TypeError; lines 153-163 are never reached
FastUnit ==
    /\ pc = "pass"
    /\ gran = "column"
    /\ k < Len(random_ids)
    /\ pc' = "failed"
    /\ err' = "TypeError"
    /\ UNCHANGED <<inputs, nan_ids, df, iter, gran, random_ids, k,
                   iter_results, df_init, calls, history>>

\* return df at the end of either transform; benchmark stops its timer
TransformReturn ==
    /\ pc = "pass"
    /\ k = Len(random_ids)
    /\ prev_ret' = df
    /\ pc' = "loss"
    /\ UNCHANGED <<inputs, nan_ids, df, iter, err, gran, random_ids, k,
                   iter_results, df_init, calls, units, pass_df, writes,
                   fit_df, train_rows, pred_rows>>

\* benchmark lines 64-73: the loss is computed and the record appended
Loss ==
    /\ pc = "loss"
    /\ iter_results' = Append(iter_results, iter)
    /\ iter' = iter + 1
    /\ pc' = "loop"
    /\ UNCHANGED <<inputs, nan_ids, df, err, gran, random_ids, k, df_init,
                   calls, history>>

\* compute_loss raises (mean_squared_error rejects its arguments)
LossError ==
    /\ pc = "loss"
    /\ pc' = "failed"
    /\ err' = "LossError"
    /\ UNCHANGED <<inputs, nan_ids, df, iter, gran, random_ids, k,
                   iter_results, df_init, calls, history>>

Next ==
    \/ Call
    \/ Return
    \/ FillTransform
    \/ BenchmarkTransform
    \/ VanilaUnit
    \/ VanilaFitError
    \/ FastUnit
    \/ TransformReturn
    \/ Loss
    \/ LossError

Spec == Init /\ [][Next]_vars

\* the calls run to their end: nothing suspends a step that can be taken
FairSpec == Spec /\ WF_vars(Next)

\* impute_initial_mean_or_mode on its own, over every table
InitImpute ==
    /\ strategy = "VanilaMICE"
    /\ max_iter = 0
    /\ entry \in Entries
    /\ df_in \in Tables
    /\ numeric \in Dtypes
    /\ InitRest

NextImpute == Call \/ Return

SpecImpute == InitImpute /\ [][NextImpute]_vars

TypeOK ==
    /\ pc \in {"start", "loop", "pass", "loss", "done", "failed"}
    /\ iter \in 0 .. max_iter
    /\ k \in 0 .. Len(random_ids)
    /\ Len(nan_ids) <= NRows * NCols

\* -------------------------------------------------------------- claims
Injective(s) == \A i, j \in 1 .. Len(s) : s[i] = s[j] => i = j

\* the table t after the writes ws, applied in order
RECURSIVE Replay(_, _)
Replay(t, ws) ==
    IF ws = <<>> THEN t
    ELSE Replay([t EXCEPT ![<<ws[1][1], ws[1][2]>>] = ws[1][3]], Tail(ws))

Terminated == pc \in {"done", "failed"}

\* C1: for every strategy and every max_iter >= 1, fill_missing_values
\* completes and returns a table of the input's shape with no missing cell.
C1_FillCompletes ==
    (entry = "fill_missing_values" /\ max_iter >= 1) =>
        /\ pc # "failed"
        /\ pc = "done" => (DOMAIN df = DOMAIN df_in /\ IsNa(df) = {})

\* C2: at every point of a run, a cell that differs from the initial
\* mean/mode imputation lies at a position of the missing-position set
\* captured before imputation: observed cells are never written.
C2_OnlyMissingWritten ==
    pc # "start" =>
        \A p \in Positions : df[p] # df_init[p] => p \in Range(nan_ids)

C2_Witness ==
    /\ pc = "done"
    /\ \E p \in Positions : df[p] # df_init[p]
    /\ \E p \in Positions : p \notin Range(nan_ids)

\* C3: on a table without missing values, for every strategy and every
\* max_iter >= 1, the run completes without error and returns the input
\* cell for cell.
C3_NoMissingUnchanged ==
    (entry = "fill_missing_values" /\ max_iter >= 1 /\ IsNa(df_in) = {}) =>
        /\ pc # "failed"
        /\ pc = "done" => df = df_in

\* C4 (state part): transform is called with iteration ids 0, 1, ... in
\* increasing order, never more than max_iter times, each pass receives
\* the table the previous pass returned, and the call returns only at
\* iteration = max_iter, after exactly max_iter passes.
C4_PassLoop ==
    /\ \A i \in 1 .. Len(calls) : calls[i].iter_id = i - 1
    /\ Len(calls) <= max_iter
    /\ pc = "pass" => pass_df = prev_ret
    /\ pc = "done" => (iter = max_iter /\ Len(calls) = max_iter)
    /\ (pc = "done" /\ entry = "benchmark") =>
            iter_results = [i \in 1 .. max_iter |-> i - 1]

C5_HybridDispatch ==
    /\ Injective([i \in 1 .. Len(calls) |-> calls[i].iter_id])
    /\ \A i \in 1 .. Len(calls) :
        /\ calls[i].gran \in {"cell", "column"}
        /\ strategy = "SlowFastMICE" =>
              (calls[i].gran = "cell" <=> calls[i].iter_id = 0)
        /\ strategy = "FastSlowMICE" =>
              (calls[i].gran = "cell" <=> calls[i].iter_id = max_iter - 1)

C5_Witness ==
    /\ strategy = "FastSlowMICE"
    /\ max_iter >= 2
    /\ Len(calls) = max_iter
    /\ calls[1].gran = "column"
    /\ calls[max_iter].gran = "cell"

\* C6: in a column-level pass over a non-empty missing-position set the
\* work units are exactly the columns with a missing position, each
\* processed once by one fit/predict, and the pass goes through.
C6_ColumnUnits ==
    (gran = "column" /\ nan_ids # <<>>) =>
        /\ Injective(random_ids)
        /\ Range(random_ids) = ColumnsMissing(df_in)
        /\ pc # "failed"

\* C7: in a cell-level pass the processed units never repeat, are missing
\* positions, each written by its own fit/predict, and once the pass is
\* through they are the whole missing-position set.
C7_CellPassPermutation ==
    gran = "cell" =>
        /\ Injective(units)
        /\ Range(units) \subseteq Range(nan_ids)
        /\ Len(writes) = Len(units)
        /\ \A i \in 1 .. Len(units) : <<writes[i][1], writes[i][2]>> = units[i]
        /\ k = Len(random_ids) =>
              (Range(units) = Range(nan_ids) /\ Len(units) = Len(nan_ids))

C7_Witness ==
    /\ gran = "cell"
    /\ pc = "loss"
    /\ Len(units) >= 2
    /\ Range(units) = Range(nan_ids)

\* C8: in every fit/predict step the rows trained on are disjoint from
\* the rows predicted and written.
C8_NoLeakage == train_rows \cap pred_rows = {}

\* C9: impute_initial_mean_or_mode leaves its argument alone, keeps every
\* present cell, puts the column mean in the missing cells of a numeric
\* column and the column mode in those of a categorical one, and leaves
\* no cell missing in a column that has a present value.
C9_InitialImputation ==
    pc # "start" =>
        \A p \in Positions :
            LET c == p[2]
                n == Cardinality(PresentRows(df_in, c))
            IN /\ df_in[p] # NaN => df_init[p] = df_in[p]
               /\ (df_in[p] = NaN /\ n > 0 /\ numeric[c]) =>
                      n * df_init[p] = SumOver(df_in, c, PresentRows(df_in, c))
               /\ (df_in[p] = NaN /\ n > 0 /\ ~numeric[c]) =>
                      df_init[p] \in Range(Mode(df_in, c))
               /\ n > 0 => df_init[p] # NaN

\* C10: units of a pass run one after another, and the fit of the k-th
\* unit reads the table as left by the writes of units 1 .. k-1 of the
\* pass, not the table the pass started from.
C10_ChainedView ==
    (gran = "cell" /\ writes # <<>>) =>
        /\ Len(writes) = k
        /\ fit_df = Replay(pass_df, SubSeq(writes, 1, Len(writes) - 1))
        /\ df = Replay(pass_df, writes)

C10_Witness ==
    /\ gran = "cell"
    /\ Len(writes) >= 2
    /\ fit_df # pass_df

====
